---- MODULE Spec2Model ----
(***************************************************************************)
(* Model of the Leaflet map visual (src/src/visual.ts): the host lifecycle *)
(* (constructor, update, destroy), the animation-frame callbacks it        *)
(* defers, the grouped layer control with its collapsible group headers,   *)
(* and the refresh timer with the page-visibility listener.                *)
(*                                                                         *)
(* The event loop is single threaded.  A frame tick takes the callbacks    *)
(* queued by requestAnimationFrame so far (frameNext), and runs them one   *)
(* after the other (frameNow); callbacks queued meanwhile wait for the     *)
(* following tick.  No other event is handled while a frame is running.    *)
(***************************************************************************)
EXTENDS Integers, Sequences, FiniteSets, TLC

VARIABLES
    inited,            \* Visual.inited
    destroyed,         \* destroy() has run: the map surface is released
    frameNext,         \* requestAnimationFrame callbacks waiting for the next tick
    frameNow,          \* callbacks of the tick that is running
    initScheduled,     \* how often initLayersAndUI was handed to requestAnimationFrame
    initRuns,          \* how often initLayersAndUI was entered
    created,           \* overlay layers that exist (countiesLayer, the incident layers)
    onMap,             \* layers rendered on the map surface
    layerControl,      \* Visual.layerControl is set
    controlEntries,    \* entries of the grouped layer control
    mapHandler,        \* the "overlayadd overlayremove baselayerchange" handler is on
    autoRefreshTimer,  \* Visual.autoRefreshTimer (0 is null)
    timers,            \* interval timers the window holds active
    nextTimerId,       \* the id window.setInterval hands out next
    starts,            \* startAutoRefresh calls so far (ghost)
    lastMs,            \* argument of the latest startAutoRefresh call (ghost)
    visListeners,      \* registered "visibilitychange" listeners of the widget
    visibilityState,   \* document.visibilityState
    refreshCalls,      \* refresh() calls each incident layer got in the latest step
    members,           \* member elements the control renders under each group
    hdr,               \* per group: the rendered header and its member elements
    activated,         \* groups whose header the user has activated (ghost)
    nInteractions,     \* layer-control interactions so far (ghost, bounded)
    ticksSince,        \* frame ticks completed since the latest interaction (ghost)
    ev,                \* the event handled by the latest step (ghost)
    usedAfterRelease,  \* a callback used the map surface after destroy() (ghost)
    missed,            \* groups a wiring call could not locate (ghost)
    reachedMap,        \* the event of the last step bubbled on to the map container
    tooltip            \* the labels bound by the latest workzoneEachFeature call

vars == <<inited, destroyed, frameNext, frameNow, initScheduled, initRuns, created,
          onMap, layerControl, controlEntries, mapHandler, autoRefreshTimer, timers,
          nextTimerId, starts, lastMs, visListeners, visibilityState, refreshCalls, members,
          hdr, activated, nInteractions, ticksSince, ev, usedAfterRelease, missed,
          reachedMap, tooltip>>

\* ------------------------------------------------------------------ bounds
MaxPending == 3        \* callbacks waiting in the frame queue
MaxInteractions == 2   \* layer-control interactions of one run
MaxTimerStarts == 3    \* startAutoRefresh calls of one run
MaxMembers == 2        \* member elements of a group in the group harness
TickCap == 2           \* frame ticks counted after an interaction

\* --------------------------------------------------------------- constants
SixHours == 21600000   \* 6 * 60 * 60 * 1000

DarkMap == "darkMap"
LightMap == "lightMap"
Basemaps == {DarkMap, LightMap}
CountiesLayer == "countiesLayer"
ConstructionLayer == "constructionLayer"

\* the ten work zone layers, in the order of their creation
IncidentLayers ==
    {"truckClosureLayer", "constructionLayer", "nightConstructionLayer",
     "maintenanceLayer", "nightMaintenanceLayer", "emergencyLayer",
     "obstructionLayer", "weatherLayer", "specialLayer", "otherLayer"}

Boundaries == "Boundaries"
WorkZones == "Work Zones"
Groups == {Boundaries, WorkZones}

\* groupedOverlays: group -> the layers listed under it
GroupedOverlays ==
    {[group |-> Boundaries, layer |-> CountiesLayer]}
    \cup {[group |-> WorkZones, layer |-> l] : l \in IncidentLayers}

\* the where clause each incident layer is created with: wz("...")
Where(l) ==
    CASE l = "truckClosureLayer" -> "IncidentType = 'Truck Closure'"
      [] l = "constructionLayer" -> "IncidentType = 'Construction'"
      [] l = "nightConstructionLayer" -> "IncidentType = 'Night Time Construction'"
      [] l = "maintenanceLayer" -> "IncidentType = 'Maintenance'"
      [] l = "nightMaintenanceLayer" -> "IncidentType = 'Night Time Maintenance'"
      [] l = "emergencyLayer" -> "IncidentType = 'Emergency Road Work'"
      [] l = "obstructionLayer" -> "IncidentType = 'Road Obstruction'"
      [] l = "weatherLayer" -> "IncidentType = 'Weather Event'"
      [] l = "specialLayer" -> "IncidentType = 'Special Event'"
      [] l = "otherLayer" -> "IncidentType = 'Other'"

\* the label each incident layer is registered under in groupedOverlays
Label(l) ==
    CASE l = "truckClosureLayer" -> "Truck Closure"
      [] l = "constructionLayer" -> "Construction"
      [] l = "nightConstructionLayer" -> "Night Construction"
      [] l = "maintenanceLayer" -> "Maintenance"
      [] l = "nightMaintenanceLayer" -> "Night Time Maintenance"
      [] l = "emergencyLayer" -> "Emergency Road Work"
      [] l = "obstructionLayer" -> "Road Obstruction"
      [] l = "weatherLayer" -> "Weather Event"
      [] l = "specialLayer" -> "Special Event"
      [] l = "otherLayer" -> "Other"

\* the member elements the control renders for groupedOverlays
ProgramMembers ==
    [g \in Groups |-> Cardinality({e \in GroupedOverlays : e.group = g})]

NoCalls == [l \in IncidentLayers |-> 0]

\* the header of a group before the control has rendered anything
NoHeader ==
    [rendered |-> FALSE, root |-> FALSE, gliWired |-> FALSE, click |-> 0,
     keydown |-> 0, carets |-> 0, isCollapsed |-> FALSE, items |-> <<>>]

\* the header and the n member elements as the control renders them: all shown
RenderedHeader(n) ==
    [rendered |-> TRUE, root |-> TRUE, gliWired |-> FALSE, click |-> 0,
     keydown |-> 0, carets |-> 0, isCollapsed |-> FALSE,
     items |-> [i \in 1..n |-> FALSE]]

Event(t, a) == [type |-> t, arg |-> a]

\* ------------------------------------------------------ work zone tooltips
\* the values a feature property can hold
Undefined == [kind |-> "undefined", num |-> 0, str |-> ""]
Null == [kind |-> "null", num |-> 0, str |-> ""]
Num(n) == [kind |-> "number", num |-> n, str |-> ""]
Str(t) == [kind |-> "string", num |-> 0, str |-> t]
True == [kind |-> "boolean", num |-> 1, str |-> ""]

\* feature.properties with the two coded fields, or no properties object
Props(sev, dir) == [present |-> TRUE, Severity |-> sev, Direction |-> dir]
NoProps == [present |-> FALSE, Severity |-> Undefined, Direction |-> Undefined]

\* const p = feature.properties || {}
P(props) == IF props.present THEN props ELSE Props(Undefined, Undefined)

\* v === n, or v == n when strict is FALSE
EqualsNumber(v, n, strict) ==
    \/ v.kind = "number" /\ v.num = n
    \/ ~strict /\ v.kind = "boolean" /\ v.num = n
    \/ ~strict /\ v.kind = "string" /\ v.str \in {"1", "2", "3"}
                /\ n = (CASE v.str = "1" -> 1 [] v.str = "2" -> 2 [] v.str = "3" -> 3)

\* const sev = p.Severity === 1 ? "Low" : ... : "Not Provided"
SeverityLabelWith(v, strict) ==
    IF EqualsNumber(v, 1, strict) THEN "Low"
    ELSE IF EqualsNumber(v, 2, strict) THEN "Medium"
    ELSE IF EqualsNumber(v, 3, strict) THEN "High"
    ELSE "Not Provided"

\* the severity label compared with == in place of ===
SeverityLabel_Loose(v) == SeverityLabelWith(v, FALSE)

SeverityLabel(v) == SeverityLabelWith(v, TRUE)

\* the members every object literal inherits: functions all but __proto__
InheritedFunctions ==
    {"constructor", "toString", "toLocaleString", "valueOf", "hasOwnProperty",
     "isPrototypeOf", "propertyIsEnumerable"}

\* the property key a value is converted to
PropertyKey(v) ==
    CASE v.kind = "string" -> v.str
      [] v.kind = "undefined" -> "undefined"
      [] v.kind = "null" -> "null"
      [] v.kind = "boolean" -> "true"

\* dirMap[key] as the template prints it, "" where the lookup gives undefined:
\* the six own properties, then what the literal inherits
DirMap(key) ==
    CASE key = "N" -> "North"
      [] key = "S" -> "South"
      [] key = "E" -> "East"
      [] key = "W" -> "West"
      [] key = "A" -> "All"
      [] key = "O" -> "Outer"
      [] key = "constructor" -> "function Object() { [native code] }"
      [] key \in InheritedFunctions \ {"constructor"} ->
             "function " \o key \o "() { [native code] }"
      [] key = "__proto__" -> "[object Object]"
      [] OTHER -> ""

\* const direction = dirMap[p.Direction] || "Not Provided"
DirectionLabel(v) ==
    IF DirMap(PropertyKey(v)) # "" THEN DirMap(PropertyKey(v)) ELSE "Not Provided"

\* the labels workzoneEachFeature binds for a feature with the given properties
\* (tooltip = NoTooltip only before the first feature)
Tooltip(props) ==
    [props |-> props,
     sev |-> SeverityLabel(P(props).Severity),
     direction |-> DirectionLabel(P(props).Direction)]

\* no tooltip has been bound
NoTooltip == [props |-> NoProps, sev |-> "", direction |-> ""]

\* ------------------------------------------------- collapsible group headers
\* setCollapsed: every member element gets display "none" or "", and the header
\* gets or loses the class is-collapsed
SetCollapsed(h, collapsed) ==
    [h EXCEPT !.items = [i \in DOMAIN h.items |-> collapsed],
              !.isCollapsed = collapsed]

\* toggle: setCollapsed(!(items[0]?.style.display === "none"))
Toggle(h) ==
    SetCollapsed(h, ~(IF Len(h.items) > 0 THEN h.items[1] ELSE FALSE))

\* one event dispatched to n handlers that each call toggle
RECURSIVE ApplyToggle(_, _)
ApplyToggle(h, n) == IF n = 0 THEN h ELSE ApplyToggle(Toggle(h), n - 1)

\* makeGroupedLayerCollapsible(control, groupName) on the header h of the group;
\* container tells whether the control has a container element, and marker
\* whether the _gliWired marker of the header is looked at
MakeGroupedLayerCollapsibleWith(h, container, marker) ==
    IF ~container THEN h
    ELSE IF ~h.rendered THEN h
    ELSE IF ~h.root THEN h
    ELSE IF marker /\ h.gliWired THEN h
    ELSE SetCollapsed(
           [h EXCEPT !.gliWired = TRUE,
                     !.carets = IF h.carets = 0 THEN 1 ELSE h.carets,
                     !.click = h.click + 1,
                     !.keydown = h.keydown + 1],
           TRUE)

\* makeGroupedLayerCollapsible without the _gliWired check
MakeGroupedLayerCollapsible_Rewire(h, container) ==
    MakeGroupedLayerCollapsibleWith(h, container, FALSE)

\* makeGroupedLayerCollapsible that sets the _gliWired marker as soon as it has
\* the header, before it has looked for the group root
MakeGroupedLayerCollapsible_MarkEarly(h, container) ==
    IF container /\ h.rendered /\ ~h.root /\ ~h.gliWired
    THEN [h EXCEPT !.gliWired = TRUE]
    ELSE MakeGroupedLayerCollapsibleWith(h, container, TRUE)

\* the control has a container, the group's name span is in it and the header
\* has a group root: none of the returns of lines 258, 262, 266 is taken
Located(h, container) == container /\ h.rendered /\ h.root

\* makeGroupedLayerCollapsible: if (hdr._gliWired) return; hdr._gliWired = true;
MakeGroupedLayerCollapsible(h, container) ==
    MakeGroupedLayerCollapsibleWith(h, container, TRUE)

\* the keys the keydown handler reacts to
IsToggleKey(k) == k = "Enter" \/ k = " "

\* ------------------------------------------------------------ refresh helpers
\* refreshAllLayers that leaves out the layers not shown on the map
RefreshAllLayers_ShownOnly ==
    [l \in IncidentLayers |-> IF l \in created /\ l \in onMap THEN 1 ELSE 0]

\* refreshAllLayers: refresh() on every incident layer that exists
RefreshAllLayers == [l \in IncidentLayers |-> IF l \in created THEN 1 ELSE 0]


\* onVisibilityRefresh that does not look at the visibility state
OnVisibilityRefresh_Always(state) == RefreshAllLayers

\* onVisibilityRefresh with the given document.visibilityState
OnVisibilityRefresh(state) ==
    IF state = "visible" THEN RefreshAllLayers ELSE NoCalls

\* startAutoRefresh(ms), clear telling whether it clears the stored timer
StartAutoRefreshWith(ms, clear) ==
    LET cleared == IF clear /\ autoRefreshTimer # 0 THEN timers \ {autoRefreshTimer}
                   ELSE timers
    IN  /\ IF ms > 0
           THEN /\ timers' = cleared \cup {nextTimerId}
                /\ autoRefreshTimer' = nextTimerId
                /\ nextTimerId' = nextTimerId + 1
           ELSE /\ timers' = cleared
                /\ UNCHANGED <<autoRefreshTimer, nextTimerId>>
        /\ starts' = starts + 1
        /\ lastMs' = ms

\* startAutoRefresh that starts the new timer without cancelling the old one
StartAutoRefresh_NoClear(ms) == StartAutoRefreshWith(ms, FALSE)

\* startAutoRefresh(ms): if (this.autoRefreshTimer) clearInterval(...)
StartAutoRefresh(ms) == StartAutoRefreshWith(ms, TRUE)

\* ------------------------------------------------------------------- state
\* constructor: createMapContainer and initMap (the map with the dark basemap);
\* timer tells whether it also starts the refresh timer
Constructed(m, timer) ==
    /\ inited = FALSE
    /\ destroyed = FALSE
    /\ frameNext = <<>>
    /\ frameNow = <<>>
    /\ initScheduled = 0
    /\ initRuns = 0
    /\ created = {}
    /\ onMap = {DarkMap}
    /\ layerControl = FALSE
    /\ controlEntries = {}
    /\ mapHandler = FALSE
    /\ autoRefreshTimer = (IF timer THEN 1 ELSE 0)
    /\ timers = (IF timer THEN {1} ELSE {})
    /\ nextTimerId = (IF timer THEN 2 ELSE 1)
    /\ starts = (IF timer THEN 1 ELSE 0)
    /\ lastMs = (IF timer THEN SixHours ELSE 0)
    /\ visListeners = 0
    /\ visibilityState \in {"visible", "hidden"}
    /\ refreshCalls = NoCalls
    /\ members = m
    /\ hdr = [g \in Groups |-> NoHeader]
    /\ activated = {}
    /\ nInteractions = 0
    /\ ticksSince = 0
    /\ ev = Event("constructor", "")
    /\ usedAfterRelease = FALSE
    /\ missed = {}
    /\ reachedMap = FALSE
    /\ tooltip = NoTooltip

\* a constructor that starts the auto refresh before any layer exists
InitWith_EagerRefresh(m) == Constructed(m, TRUE)

\* the state after the constructor, the control rendering m[g] members for group g
InitWith(m) == Constructed(m, FALSE)

Init == InitWith(ProgramMembers)

lifecycleVars == <<inited, destroyed, initScheduled, initRuns>>
layerVars == <<created, onMap, layerControl, controlEntries, mapHandler>>
timerVars == <<autoRefreshTimer, timers, nextTimerId, starts, lastMs>>
domVars == <<members, hdr, activated>>
ghostVars == <<missed, tooltip>>

\* ------------------------------------------------------------ host lifecycle
DataViews == {"absent", "noCategorical", "categorical"}

\* update(options), first telling whether this call takes the branch that
\* schedules the deferred initialization; the data view is only logged
UpdateWith(dataView, first) ==
    /\ ~destroyed
    /\ frameNow = <<>>
    /\ Len(frameNext) < MaxPending
    /\ IF first
       THEN /\ inited' = TRUE
            /\ initScheduled' = initScheduled + 1
            /\ frameNext' = frameNext \o <<"initLayersAndUI", "invalidateSize">>
       ELSE /\ frameNext' = Append(frameNext, "invalidateSize")
            /\ UNCHANGED <<inited, initScheduled>>
    /\ refreshCalls' = NoCalls
    /\ reachedMap' = FALSE
    /\ ev' = Event("update", dataView)
    /\ UNCHANGED <<destroyed, frameNow, initRuns, layerVars, timerVars, visListeners,
                   visibilityState, domVars, nInteractions, ticksSince,
                   usedAfterRelease,
                   ghostVars>>

\* update without the inited guard: every call schedules the initialization
Update_Unguarded(dataView) == UpdateWith(dataView, TRUE)

\* update that looks at the data view first and returns on "No data" before it
\* schedules anything
Update_DataFirst(dataView) ==
    IF dataView = "categorical"
    THEN UpdateWith(dataView, ~inited)
    ELSE /\ ~destroyed
         /\ frameNow = <<>>
         /\ Len(frameNext) < MaxPending
         /\ refreshCalls' = NoCalls
         /\ reachedMap' = FALSE
         /\ ev' = Event("update", dataView)
         /\ UNCHANGED <<lifecycleVars, frameNext, frameNow, layerVars, timerVars,
                        visListeners, visibilityState, domVars, nInteractions,
                        ticksSince, usedAfterRelease, ghostVars>>

\* update(options): if (!this.inited) { this.inited = true; ... }
Update(dataView) == UpdateWith(dataView, ~inited)

\* destroy(), listener telling whether it removes the visibility listener
DestroyWith(listener) ==
    /\ ~destroyed
    /\ frameNow = <<>>
    /\ timers' = IF autoRefreshTimer # 0 THEN timers \ {autoRefreshTimer} ELSE timers
    /\ visListeners' = IF listener THEN 0 ELSE visListeners
    /\ onMap' = {}
    /\ destroyed' = TRUE
    /\ refreshCalls' = NoCalls
    /\ reachedMap' = FALSE
    /\ ev' = Event("destroy", "")
    /\ UNCHANGED <<inited, frameNext, frameNow, initScheduled, initRuns, created,
                   layerControl, controlEntries, mapHandler, autoRefreshTimer,
                   nextTimerId, starts, lastMs, visibilityState, domVars,
                   nInteractions, ticksSince, usedAfterRelease,
                   ghostVars>>

\* destroy that clears the timer and leaves the visibility listener registered
Destroy_KeepListener == DestroyWith(FALSE)

\* destroy(): clearInterval, removeEventListener, map.remove()
Destroy == DestroyWith(TRUE)

\* --------------------------------------------------------------- frame ticks
FrameBegin ==
    /\ frameNow = <<>>
    /\ frameNext # <<>>
    /\ frameNow' = frameNext
    /\ frameNext' = <<>>
    /\ refreshCalls' = NoCalls
    /\ reachedMap' = FALSE
    /\ ev' = Event("frame", "")
    /\ UNCHANGED <<lifecycleVars, layerVars, timerVars, visListeners, visibilityState,
                   domVars, nInteractions, ticksSince, usedAfterRelease,
                   ghostVars>>

\* the callback at the head of the running frame returns
CallbackDone(name) ==
    /\ frameNow # <<>>
    /\ Head(frameNow) = name
    /\ frameNow' = Tail(frameNow)
    /\ ticksSince' = IF Tail(frameNow) = <<>> /\ ticksSince < TickCap
                     THEN ticksSince + 1 ELSE ticksSince
    /\ refreshCalls' = NoCalls
    /\ reachedMap' = FALSE
    /\ ev' = Event(name, "")

\* where initLayersAndUI can fail: on a live map nowhere (0); the calls it makes
\* on a released map (lines 156, 210, 243, 245) each either fail or go through
ThrowPoints == IF destroyed THEN {0, 156, 210, 243, 245} ELSE {0}

\* initLayersAndUI(), failing at line throwAt (0: running to its end); shown are
\* the work zone layers it adds to the map
InitLayersAndUIWith(throwAt, shown) ==
    LET Reached(line) == throwAt = 0 \/ throwAt > line
        live == ~destroyed
    IN  /\ initRuns' = initRuns + 1
        /\ created' = IF Reached(156)
                      THEN created \cup {CountiesLayer} \cup IncidentLayers
                      ELSE created
        /\ onMap' = onMap
                    \cup (IF Reached(156) /\ live THEN {CountiesLayer} ELSE {})
                    \cup (IF Reached(210) /\ live THEN shown ELSE {})
        /\ layerControl' = (layerControl \/ Reached(243))
        /\ controlEntries' = IF Reached(243) THEN GroupedOverlays ELSE controlEntries
        /\ hdr' = IF Reached(243)
                  THEN [g \in Groups |-> RenderedHeader(members[g])]
                  ELSE hdr
        /\ mapHandler' = (mapHandler \/ Reached(245))
        /\ IF Reached(245)
           THEN /\ StartAutoRefresh(SixHours)
                /\ visListeners' = IF visListeners = 0 THEN 1 ELSE visListeners
           ELSE UNCHANGED <<timerVars, visListeners>>
        /\ usedAfterRelease' = (usedAfterRelease \/ destroyed)
        /\ UNCHANGED <<inited, destroyed, initScheduled, frameNext, visibilityState,
                       members, activated, nInteractions,
                   ghostVars>>

\* initLayersAndUI adding every work zone layer to the map
InitLayersAndUI_ShowAll(throwAt) == InitLayersAndUIWith(throwAt, IncidentLayers)

\* initLayersAndUI(): this.constructionLayer.addTo(this.map)
InitLayersAndUI(throwAt) == InitLayersAndUIWith(throwAt, {ConstructionLayer})

RunInitLayersAndUI ==
    /\ CallbackDone("initLayersAndUI")
    /\ \E throwAt \in ThrowPoints : InitLayersAndUI(throwAt)

\* () => this.map.invalidateSize()
RunInvalidateSize ==
    /\ CallbackDone("invalidateSize")
    /\ usedAfterRelease' = (usedAfterRelease \/ destroyed)
    /\ UNCHANGED <<lifecycleVars, frameNext, layerVars, timerVars, visListeners,
                   visibilityState, domVars, nInteractions,
                   ghostVars>>

\* refreshLayerControlCollapsibles that schedules nothing
RefreshLayerControlCollapsibles_Dropped == frameNext' = frameNext

\* refreshLayerControlCollapsibles(): the wiring waits one more frame
RefreshLayerControlCollapsibles ==
    frameNext' = IF ~layerControl THEN frameNext
                 ELSE Append(frameNext, "wireCollapsibles")

RunRefreshLayerControlCollapsibles ==
    /\ CallbackDone("refreshLayerControlCollapsibles")
    /\ RefreshLayerControlCollapsibles
    /\ UNCHANGED <<lifecycleVars, layerVars, timerVars, visListeners, visibilityState,
                   domVars, nInteractions, usedAfterRelease,
                   ghostVars>>

\* the inner callback of refreshLayerControlCollapsibles: both groups are wired
WireCollapsibles ==
    hdr' = [g \in Groups |-> MakeGroupedLayerCollapsible(hdr[g], layerControl)]

RunWireCollapsibles ==
    /\ CallbackDone("wireCollapsibles")
    /\ WireCollapsibles
    /\ missed' = missed \cup {g \in Groups : ~Located(hdr[g], layerControl)}
    /\ UNCHANGED <<lifecycleVars, frameNext, layerVars, timerVars, visListeners,
                   visibilityState, members, activated, nInteractions,
                   usedAfterRelease,
                   tooltip>>

\* ------------------------------------------------ timer and page visibility
\* the interval timer t fires: () => this.refreshAllLayers(); the firing overlaps
\* the re-query of the step before it, if that was one
TimerFire(t) ==
    /\ frameNow = <<>>
    /\ t \in timers
    /\ refreshCalls' = RefreshAllLayers
    /\ reachedMap' = FALSE
    /\ ev' = Event("timer", IF refreshCalls = NoCalls THEN "" ELSE "overlapping")
    /\ UNCHANGED <<lifecycleVars, frameNext, frameNow, layerVars, timerVars,
                   visListeners, visibilityState, domVars, nInteractions, ticksSince,
                   usedAfterRelease,
                   ghostVars>>

\* the page becomes hidden or visible; the event reaches the registered listener
VisibilityChange ==
    /\ frameNow = <<>>
    /\ visibilityState' = IF visibilityState = "visible" THEN "hidden" ELSE "visible"
    /\ refreshCalls' = IF visListeners > 0 THEN OnVisibilityRefresh(visibilityState')
                       ELSE NoCalls
    /\ reachedMap' = FALSE
    /\ ev' = Event("visibilitychange", visibilityState')
    /\ UNCHANGED <<lifecycleVars, frameNext, frameNow, layerVars, timerVars,
                   visListeners, domVars, nInteractions, ticksSince, usedAfterRelease,
                   ghostVars>>


\* ------------------------------------------------------ layer control events
\* the map fires overlayadd, overlayremove or baselayerchange
OnLayerEvent ==
    frameNext' = IF mapHandler
                 THEN Append(frameNext, "refreshLayerControlCollapsibles")
                 ELSE frameNext

\* the work zone layers the user's clicks are drawn from: the one shown from the
\* start, and the first and the last of the others
ToggleInputs == {ConstructionLayer, "truckClosureLayer", "otherLayer"}

\* the member elements of group g can be clicked
ItemsShown(g) == \A i \in DOMAIN hdr[g].items : ~hdr[g].items[i]

Interaction ==
    /\ ~destroyed
    /\ layerControl
    /\ frameNow = <<>>
    /\ nInteractions < MaxInteractions
    /\ nInteractions' = nInteractions + 1
    /\ ticksSince' = 0
    /\ refreshCalls' = NoCalls
    /\ reachedMap' = FALSE

\* the user ticks or unticks the checkbox of a work zone layer
ToggleOverlay(l) ==
    /\ Interaction
    /\ [group |-> WorkZones, layer |-> l] \in controlEntries
    /\ ItemsShown(WorkZones)
    /\ onMap' = IF l \in onMap THEN onMap \ {l} ELSE onMap \cup {l}
    /\ OnLayerEvent
    /\ ev' = Event(IF l \in onMap THEN "overlayremove" ELSE "overlayadd", l)
    /\ UNCHANGED <<lifecycleVars, frameNow, created, layerControl, controlEntries,
                   mapHandler, timerVars, visListeners, visibilityState, domVars,
                   usedAfterRelease,
                   ghostVars>>

\* the layers registered under the exclusive group "Boundaries"
BoundaryLayers == {e.layer : e \in {x \in controlEntries : x.group = Boundaries}}

\* the user clicks the radio button of a boundary layer: the control shows it in
\* place of the group's other members; on the one already shown nothing changes
SelectBoundary(l) ==
    /\ ~destroyed
    /\ layerControl
    /\ frameNow = <<>>
    /\ [group |-> Boundaries, layer |-> l] \in controlEntries
    /\ ItemsShown(Boundaries)
    /\ onMap' = (onMap \ BoundaryLayers) \cup {l}
    /\ IF l \in onMap
       THEN UNCHANGED <<frameNext, nInteractions, ticksSince>>
       ELSE /\ nInteractions < MaxInteractions
            /\ nInteractions' = nInteractions + 1
            /\ ticksSince' = 0
            /\ OnLayerEvent
    /\ refreshCalls' = NoCalls
    /\ reachedMap' = FALSE
    /\ ev' = Event("select", l)
    /\ UNCHANGED <<lifecycleVars, frameNow, created, layerControl, controlEntries,
                   mapHandler, timerVars, visListeners, visibilityState, domVars,
                   usedAfterRelease, ghostVars>>

\* the user selects the basemap b that is not active; old are the layers the
\* control takes off the map for it
SelectBasemapWith(b, old) ==
    /\ Interaction
    /\ b \in Basemaps \ onMap
    /\ onMap' = (onMap \ old) \cup {b}
    /\ OnLayerEvent
    /\ ev' = Event("baselayerchange", b)
    /\ UNCHANGED <<lifecycleVars, frameNow, created, layerControl, controlEntries,
                   mapHandler, timerVars, visListeners, visibilityState, domVars,
                   usedAfterRelease,
                   ghostVars>>

\* a basemap selection that leaves the basemap shown before on the map
SelectBasemap_KeepOld(b) == SelectBasemapWith(b, {})

\* baseMaps: the two basemaps are the control's base layers, one shown at a time
SelectBasemap(b) == SelectBasemapWith(b, Basemaps)

\* ------------------------------------------------------- group header events
HeaderEvent(g) ==
    /\ ~destroyed
    /\ layerControl
    /\ frameNow = <<>>
    /\ hdr[g].rendered
    /\ hdr[g].root
    /\ activated' = activated \cup {g}
    /\ refreshCalls' = NoCalls
    /\ UNCHANGED <<lifecycleVars, frameNext, frameNow, layerVars, timerVars,
                   visListeners, visibilityState, members, nInteractions, ticksSince,
                   usedAfterRelease,
                   ghostVars>>

\* a click bubbles on from the header h unless a handler stops it: each click
\* handler calls e.stopPropagation()
ClickPropagates(h) == h.click = 0

\* a keydown bubbles on from the header h: the keydown handler calls only
\* e.preventDefault(), and disableClickPropagation and disableScrollPropagation
\* stop the mouse, touch and wheel events
KeyPropagates(h, k) == TRUE

\* a click on the header of group g: every click handler toggles
HeaderClick(g) ==
    /\ HeaderEvent(g)
    /\ reachedMap' = ClickPropagates(hdr[g])
    /\ hdr' = [hdr EXCEPT ![g] = ApplyToggle(hdr[g], hdr[g].click)]
    /\ ev' = Event("click", g)

Keys == {"Enter", " ", "Tab"}

\* a key pressed on the header of group g: every keydown handler sees it
HeaderKey(g, k) ==
    /\ HeaderEvent(g)
    /\ reachedMap' = KeyPropagates(hdr[g], k)
    /\ hdr' = [hdr EXCEPT ![g] = IF IsToggleKey(k)
                                 THEN ApplyToggle(hdr[g], hdr[g].keydown)
                                 ELSE hdr[g]]
    /\ ev' = Event("keydown:" \o k, g)

\* ------------------------------------------------------------ specification
Next ==
    \/ \E dv \in DataViews : Update(dv)
    \/ Destroy
    \/ FrameBegin
    \/ RunInitLayersAndUI
    \/ RunInvalidateSize
    \/ RunRefreshLayerControlCollapsibles
    \/ RunWireCollapsibles
    \/ \E t \in timers : TimerFire(t)
    \/ VisibilityChange
    \/ \E l \in ToggleInputs : ToggleOverlay(l)
    \/ \E b \in Basemaps : SelectBasemap(b)
    \/ SelectBoundary(CountiesLayer)
    \/ \E g \in Groups : HeaderClick(g)
    \/ \E g \in Groups, k \in Keys : HeaderKey(g, k)

Spec == Init /\ [][Next]_vars

\* ------------------------------------------------- startAutoRefresh on its own
\* The widget with startAutoRefresh(ms) called at any time between events, next to
\* the call initLayersAndUI makes: the host lifecycle, the timer and the page
\* visibility, without the layer control's user events.
Intervals == {-1, 0, 1000, SixHours}

CallStartAutoRefresh(ms) ==
    /\ ~destroyed
    /\ frameNow = <<>>
    /\ nextTimerId <= MaxTimerStarts
    /\ starts <= MaxTimerStarts
    /\ StartAutoRefresh(ms)
    /\ refreshCalls' = NoCalls
    /\ reachedMap' = FALSE
    /\ ev' = Event("startAutoRefresh", "")
    /\ UNCHANGED <<lifecycleVars, frameNext, frameNow, layerVars, visListeners,
                   visibilityState, domVars, nInteractions, ticksSince,
                   usedAfterRelease,
                   ghostVars>>

NextTimer ==
    \/ \E ms \in Intervals : CallStartAutoRefresh(ms)
    \/ \E dv \in DataViews : Update(dv)
    \/ Destroy
    \/ FrameBegin
    \/ RunInitLayersAndUI
    \/ RunInvalidateSize
    \/ \E t \in timers : TimerFire(t)
    \/ VisibilityChange

SpecTimer == Init /\ [][NextTimer]_vars

\* ---------------------------------------- makeGroupedLayerCollapsible on its own
\* The state initLayersAndUI leaves on a live map, for a control that renders
\* m[g] member elements under group g and has rendered the headers h so far
Initialized(m, h) ==
    /\ inited = TRUE
    /\ destroyed = FALSE
    /\ frameNext = <<>>
    /\ frameNow = <<>>
    /\ initScheduled = 1
    /\ initRuns = 1
    /\ created = {CountiesLayer} \cup IncidentLayers
    /\ onMap = {DarkMap, CountiesLayer, ConstructionLayer}
    /\ layerControl = TRUE
    /\ controlEntries = GroupedOverlays
    /\ mapHandler = TRUE
    /\ autoRefreshTimer = 1
    /\ timers = {1}
    /\ nextTimerId = 2
    /\ starts = 1
    /\ lastMs = SixHours
    /\ visListeners = 1
    /\ visibilityState = "visible"
    /\ refreshCalls = NoCalls
    /\ members = m
    /\ hdr = h
    /\ activated = {}
    /\ nInteractions = 0
    /\ ticksSince = 0
    /\ ev = Event("invalidateSize", "")
    /\ usedAfterRelease = FALSE
    /\ missed = {}
    /\ reachedMap = FALSE
    /\ tooltip = NoTooltip

\* a header element that exists without a group root around it
DetachedHeader == [NoHeader EXCEPT !.rendered = TRUE]

\* what the control can have rendered of a group with n member elements when
\* the wiring is called: nothing, the header alone, or the whole group
Renderings(n) == {NoHeader, DetachedHeader, RenderedHeader(n)}

InitGroup ==
    \E m \in [Groups -> 0..MaxMembers] :
        \E h \in [Groups -> UNION {Renderings(n) : n \in 0..MaxMembers}] :
            /\ \A g \in Groups : h[g] \in Renderings(m[g])
            /\ Initialized(m, h)

\* the control finishes rendering group g: the header, kept if it was there,
\* stands in its group root with the member elements shown
RenderGroup(g) ==
    /\ ~destroyed
    /\ frameNow = <<>>
    /\ ~(hdr[g].rendered /\ hdr[g].root)
    /\ hdr' = [hdr EXCEPT ![g] =
                 IF hdr[g].rendered
                 THEN [hdr[g] EXCEPT !.root = TRUE,
                                     !.items = [i \in 1..members[g] |-> FALSE]]
                 ELSE RenderedHeader(members[g])]
    /\ refreshCalls' = NoCalls
    /\ reachedMap' = FALSE
    /\ ev' = Event("render", g)
    /\ UNCHANGED <<lifecycleVars, frameNext, frameNow, layerVars, timerVars,
                   visListeners, visibilityState, members, activated, nInteractions,
                   ticksSince, usedAfterRelease, ghostVars>>

\* this.makeGroupedLayerCollapsible(control, g); container tells whether the
\* control passed has a container element
CallMakeGroupedLayerCollapsible(g, container) ==
    /\ ~destroyed
    /\ frameNow = <<>>
    /\ hdr' = [hdr EXCEPT ![g] = MakeGroupedLayerCollapsible(hdr[g], container)]
    /\ missed' = IF Located(hdr[g], container) THEN missed ELSE missed \cup {g}
    /\ refreshCalls' = NoCalls
    /\ reachedMap' = FALSE
    /\ ev' = Event(IF container THEN "makeGroupedLayerCollapsible"
                   ELSE "makeGroupedLayerCollapsible:noContainer", g)
    /\ UNCHANGED <<lifecycleVars, frameNext, frameNow, layerVars, timerVars,
                   visListeners, visibilityState, members, activated, nInteractions,
                   ticksSince, usedAfterRelease,
                   tooltip>>

NextGroup ==
    \/ \E g \in Groups, c \in BOOLEAN : CallMakeGroupedLayerCollapsible(g, c)
    \/ \E g \in Groups : RenderGroup(g)
    \/ \E g \in Groups : HeaderClick(g)
    \/ \E g \in Groups, k \in Keys : HeaderKey(g, k)

SpecGroup == InitGroup /\ [][NextGroup]_vars

\* ------------------------------------------------- workzoneEachFeature on its own
\* The initialized widget with the layer library calling workzoneEachFeature for
\* the features a query returns.
Severities ==
    {Undefined, Null, True, Num(0), Num(1), Num(2), Num(3), Num(4),
     Str("1"), Str("2"), Str("3"), Str("Low")}
DirectionCodes == {"N", "S", "E", "W", "A", "O"}
Directions ==
    {Undefined, Null}
    \cup {Str(t) : t \in DirectionCodes}
    \cup {Str(t) : t \in {"", "n", "X", "NE", "North", "__proto__"}}
    \cup {Str(t) : t \in InheritedFunctions}
Features == {NoProps} \cup {Props(sv, d) : sv \in Severities, d \in Directions}

InitTooltip ==
    Initialized(ProgramMembers, [g \in Groups |-> RenderedHeader(ProgramMembers[g])])

\* workzoneEachFeature(feature, layer)
EachFeature(props) ==
    /\ ~destroyed
    /\ frameNow = <<>>
    /\ tooltip' = Tooltip(props)
    /\ refreshCalls' = NoCalls
    /\ reachedMap' = FALSE
    /\ ev' = Event("eachFeature", "")
    /\ UNCHANGED <<lifecycleVars, frameNext, frameNow, layerVars, timerVars,
                   visListeners, visibilityState, domVars, nInteractions, ticksSince,
                   usedAfterRelease, missed>>

NextTooltip == \E props \in Features : EachFeature(props)

SpecTooltip == InitTooltip /\ [][NextTooltip]_vars

\* ------------------------------------------------------------------ claims
Pending == frameNow \o frameNext
IsPending(name) == \E i \in DOMAIN Pending : Pending[i] = name
AllWired == \A g \in Groups : hdr[g].gliWired
\* group g is collapsed: the header is marked and every member element is hidden
Collapsed(g) ==
    /\ hdr[g].isCollapsed
    /\ \A i \in DOMAIN hdr[g].items : hdr[g].items[i]

\* C1: in every state after destroy() no refresh timer is active, no visibility
\* listener is registered and no re-query fires, also when destroy() came
\* between the first update() and the deferred initialization frame.
C1_DestroyLeavesNothingActive ==
    destroyed => /\ timers = {}
                 /\ visListeners = 0
                 /\ refreshCalls = NoCalls

\* C2: initLayersAndUI is scheduled by the first update() only and runs at most
\* once; it has run exactly once as soon as an update() has occurred and the
\* frame callback that update() scheduled has been delivered.
C2_InitExactlyOnce ==
    /\ initScheduled = (IF inited THEN 1 ELSE 0)
    /\ initRuns <= 1
    /\ (initRuns = 1) <=> (inited /\ ~IsPending("initLayersAndUI"))

\* an update() arrives after the deferred initialization has run, and schedules
\* a size re-validation only
C2_Witness ==
    /\ initRuns = 1
    /\ ev.type = "update"
    /\ frameNext = <<"invalidateSize">>

\* C3: at most one refresh timer is active in every state and the stored handle
\* is that timer; after startAutoRefresh has been called (twice or more) with a
\* positive interval last, exactly one timer is active.
C3_AtMostOneTimer ==
    /\ Cardinality(timers) <= 1
    /\ timers # {} => timers = {autoRefreshTimer}
    /\ (starts >= 1 /\ lastMs > 0 /\ ~destroyed) => Cardinality(timers) = 1

\* startAutoRefresh was called three times, a timer was replaced by a new one
C3_Witness ==
    /\ starts >= 3
    /\ lastMs > 0
    /\ autoRefreshTimer >= 2
    /\ timers = {autoRefreshTimer}
    /\ ev.type = "startAutoRefresh"

\* C4: until the deferred initialization has run, the map has the basemap only:
\* no overlay layer, no layer control, no group header, no refresh timer and no
\* visibility listener exists, whatever number of update() calls came.
C4_ConstructedUntilInitRuns ==
    initRuns = 0 =>
        /\ onMap = (IF destroyed THEN {} ELSE {DarkMap})
        /\ created = {}
        /\ ~layerControl
        /\ controlEntries = {}
        /\ ~mapHandler
        /\ \A g \in Groups : ~hdr[g].rendered
        /\ timers = {}
        /\ autoRefreshTimer = 0
        /\ visListeners = 0

\* two update() calls have come and the deferred frame has not run yet
C4_Witness ==
    /\ inited
    /\ initRuns = 0
    /\ ~destroyed
    /\ frameNext = <<"initLayersAndUI", "invalidateSize", "invalidateSize">>

\* C5: a visibilitychange event delivered to the widget's listener triggers no
\* re-query when the page became hidden, and exactly one re-query (one refresh()
\* of each incident layer) when the page became visible.
C5_RequeryOnVisibleOnly ==
    [][(visibilityState' # visibilityState /\ visListeners > 0) =>
          \A l \in IncidentLayers :
              refreshCalls'[l] = (IF visibilityState' = "visible" THEN 1 ELSE 0)]_vars

\* the page came back to visible and the listener re-queried every layer once
C5_Witness ==
    /\ ev = Event("visibilitychange", "visible")
    /\ visListeners = 1
    /\ \A l \in IncidentLayers : refreshCalls[l] = 1

\* C6: a wired header carries exactly one click handler, one keydown handler and
\* one caret; wiring a header that is wired already changes nothing of the group;
\* and one click on a wired header toggles the group exactly once.
C6_WiringIdempotent ==
    [][/\ \A g \in Groups :
             hdr'[g].gliWired =>
                 hdr'[g].click = 1 /\ hdr'[g].keydown = 1 /\ hdr'[g].carets = 1
       /\ \A g \in Groups :
             (ev'.type = "wireCollapsibles" /\ hdr[g].gliWired) => hdr'[g] = hdr[g]
       /\ \A g \in Groups :
             (ev' = Event("click", g) /\ hdr[g].gliWired) => hdr'[g] = Toggle(hdr[g])
      ]_vars

\* the wiring ran on a group the user had expanded: it was wired before (the
\* first wiring collapses it), and the group stays expanded
C6_Witness ==
    /\ ev.type = "wireCollapsibles"
    /\ \E g \in Groups : /\ hdr[g].gliWired
                         /\ ~hdr[g].isCollapsed
                         /\ hdr[g].click = 1

\* C7: each click or Enter/Space key on a wired header flips the group, for any
\* number of member elements: afterwards the collapsed marker is the opposite of
\* what it was and every member element is hidden exactly when it is set.
C7_ActivationFlips ==
    [][\A g \in Groups :
          (/\ ev'.arg = g
           /\ ev'.type \in {"click", "keydown:Enter", "keydown: "}
           /\ hdr[g].gliWired) =>
              /\ hdr'[g].isCollapsed = ~hdr[g].isCollapsed
              /\ \A i \in DOMAIN hdr'[g].items :
                    hdr'[g].items[i] = hdr'[g].isCollapsed]_vars

\* C8 as claimed: both groups are wired once the first frame tick after a layer
\* control interaction has run.
C8_WiredAfterFirstTick ==
    (nInteractions > 0 /\ ticksSince >= 1) => AllWired

\* C8 as amended: an interaction schedules refreshLayerControlCollapsibles for
\* the next frame tick, that tick schedules the wiring for the tick after it, and
\* both groups are wired once the second frame tick after the interaction has
\* run.
C8_WiredAfterSecondTick ==
    /\ (nInteractions > 0 /\ ticksSince = 0 /\ frameNow = <<>> /\ ~AllWired)
          => IsPending("refreshLayerControlCollapsibles")
    /\ (nInteractions > 0 /\ ticksSince = 1 /\ frameNow = <<>> /\ ~AllWired)
          => IsPending("wireCollapsibles")
    /\ (nInteractions > 0 /\ ticksSince >= 2) => AllWired

\* the second frame tick after the first interaction has just wired both groups
C8_Witness ==
    /\ nInteractions = 1
    /\ ticksSince = 2
    /\ ev.type = "wireCollapsibles"
    /\ AllWired

\* C9: from the end of initLayersAndUI until the user first activates the header
\* of a group, that group is collapsed.
C9_CollapsedUntilActivated ==
    \A g \in Groups :
        (initRuns = 1 /\ layerControl /\ ~destroyed /\ g \notin activated)
            => Collapsed(g)

\* C10: right after initLayersAndUI the only incident layer on the map is
\* constructionLayer, all ten are entries of the layer control, and the only
\* basemap on the map is the dark one; later an incident layer or a basemap gets
\* on the map only by the user selecting that very layer.
C10_OnlyConstructionShown ==
    [][/\ (initRuns' = 1 /\ ~destroyed' /\ nInteractions' = 0) =>
             /\ onMap' \cap IncidentLayers = {ConstructionLayer}
             /\ onMap' \cap Basemaps = {DarkMap}
             /\ {e.layer : e \in {x \in controlEntries' : x.group = WorkZones}}
                    = IncidentLayers
       /\ \A l \in (IncidentLayers \cup Basemaps) \ onMap :
             l \in onMap' =>
                 \/ ev'.type = "initLayersAndUI" /\ l = ConstructionLayer
                 \/ ev' = Event("overlayadd", l)
                 \/ ev' = Event("baselayerchange", l)
      ]_vars

\* the deferred initialization has just run on a live map
C10_Witness ==
    /\ ev.type = "initLayersAndUI"
    /\ ~destroyed
    /\ onMap = {DarkMap, CountiesLayer, ConstructionLayer}
    /\ Cardinality(controlEntries) = 11

\* C11: every firing of the re-query, by the timer or by the visibility listener
\* on a page that became visible, calls refresh() exactly once on each of the ten
\* incident layers, shown or not and whatever is still outstanding, and leaves the
\* layers on the map, the collapse state and the timer as they were.
Firing ==
    \/ ev'.type = "timer"
    \/ ev' = Event("visibilitychange", "visible") /\ visListeners > 0
C11_RequeryAllLayersOnce ==
    [][Firing =>
         /\ \A l \in IncidentLayers : refreshCalls'[l] = 1
         /\ UNCHANGED <<onMap, created, controlEntries, hdr, timerVars, visListeners,
                        frameNext>>]_vars
\* the timer fires right after another re-query, with no incident layer shown
C11_Witness ==
    /\ ev = Event("timer", "overlapping")
    /\ onMap \cap IncidentLayers = {}
    /\ \A l \in IncidentLayers : refreshCalls[l] = 1

C14_MissedWiringIsNoOp ==
    [][\A g \in Groups :
          (/\ ev'.arg = g
           /\ ev'.type \in {"makeGroupedLayerCollapsible",
                             "makeGroupedLayerCollapsible:noContainer"}) =>
              LET found == Located(hdr[g], ev'.type = "makeGroupedLayerCollapsible")
              IN  /\ ~found => hdr' = hdr /\ g \in missed'
                  /\ (found /\ ~hdr[g].gliWired) =>
                        /\ hdr'[g].gliWired
                        /\ hdr'[g].click = 1 /\ hdr'[g].keydown = 1
                        /\ hdr'[g].carets = 1
                        /\ hdr'[g].isCollapsed
                        /\ \A i \in DOMAIN hdr'[g].items : hdr'[g].items[i]]_vars
\* a call has just wired in full a group that an earlier call had not found
C14_Witness ==
    \E g \in Groups :
        /\ ev = Event("makeGroupedLayerCollapsible", g)
        /\ g \in missed
        /\ hdr[g].gliWired /\ hdr[g].click = 1 /\ hdr[g].keydown = 1
        /\ hdr[g].carets = 1
        /\ members[g] = MaxMembers
        /\ Collapsed(g)

\* C15: every incident layer registered in the group "Work Zones" queries with
\* the predicate IncidentType = '<Type>' where <Type> is the label the layer is
\* registered under, and no two of these layers query with the same predicate.
C15_PredicateMatchesLabel ==
    LET registered == {e.layer : e \in {x \in controlEntries : x.group = WorkZones}}
    IN  /\ \A l \in registered : Where(l) = "IncidentType = '" \o Label(l) \o "'"
        /\ \A l1, l2 \in registered : Where(l1) = Where(l2) => l1 = l2

\* C16: the direction label of a tooltip is North, South, East, West, All or
\* Outer for the codes N, S, E, W, A, O and "Not Provided" for every other
\* Direction value: any other string, the name of a built-in object member, the
\* empty string, or no value.
C16_DirectionLabelTotal ==
    tooltip # NoTooltip =>
        LET d == P(tooltip.props).Direction
        IN  tooltip.direction =
              IF d.kind = "string" /\ d.str \in DirectionCodes
              THEN (CASE d.str = "N" -> "North" [] d.str = "S" -> "South"
                      [] d.str = "E" -> "East" [] d.str = "W" -> "West"
                      [] d.str = "A" -> "All" [] d.str = "O" -> "Outer")
              ELSE "Not Provided"

\* C17: the impact level of a tooltip is Low, Medium or High for the Severity
\* numbers 1, 2, 3 and "Not Provided" for every other value: other numbers, the
\* strings "1" to "3", no Severity, no properties object; the tooltip is bound
\* in each case.
C17_SeverityLabel ==
    ev.type = "eachFeature" =>
        LET v == IF tooltip.props.present THEN tooltip.props.Severity ELSE Undefined
        IN  /\ tooltip # NoTooltip
            /\ tooltip.sev = IF v = Num(1) THEN "Low"
                             ELSE IF v = Num(2) THEN "Medium"
                             ELSE IF v = Num(3) THEN "High"
                             ELSE "Not Provided"
\* a tooltip bound for a feature whose Severity is the string "2"
C17_Witness ==
    /\ ev.type = "eachFeature"
    /\ tooltip.props.present
    /\ tooltip.props.Severity = Str("2")
    /\ tooltip.sev = "Not Provided"

\* C18: no click and no Enter or Space key on a wired group header goes on to
\* the map: the event is handled by the header's toggle and stopped there.
C18_HeaderEventsStopAtHeader ==
    \A g \in Groups :
        (/\ ev.arg = g
         /\ ev.type \in {"click", "keydown:Enter", "keydown: "}
         /\ hdr[g].gliWired) => ~reachedMap

\* C19: no frame callback uses the map after destroy() has released it.
C19_NoCallbackOnReleasedMap == ~usedAfterRelease

\* C20: the visibility listener is registered exactly when a refresh timer is
\* active, it is registered at most once, and both exist only when the ten
\* incident layers have been created.
C20_TimerAndListenerTogether ==
    /\ visListeners > 0 <=> timers # {}
    /\ visListeners <= 1
    /\ Cardinality(timers) <= 1
    /\ timers # {} => autoRefreshTimer \in timers /\ IncidentLayers \subseteq created
\* initLayersAndUI has just started the timer and registered the listener
C20_Witness ==
    /\ ev.type = "initLayersAndUI"
    /\ ~destroyed
    /\ timers = {autoRefreshTimer}
    /\ visListeners = 1
    /\ IncidentLayers \subseteq created

====
